---------------------------- MODULE Spec2Model ----------------------------
(***************************************************************************)
(* The two notebooks of the repository as one state machine.               *)
(*   nb = "03"  smart-fabric notebook  (src/unnamed/part_000)              *)
(*   nb = "04"  EEG notebook           (src/04.ipynb)                      *)
(* Every cell statement is one action; pc is the statement about to run.   *)
(* The scikit-learn routines the cells call (VarianceThreshold, KNNImputer,*)
(* SelectFromModel, LabelEncoder, train_test_split, accuracy_score) are    *)
(* modelled by what they compute.  The fitted tree ensembles are opaque:   *)
(* their feature importances and their predictions are arbitrary values of *)
(* the right shape, and the model records what was handed to fit().        *)
(* Feature cells are integers counted in units of 1/Scale; accuracies and  *)
(* imputed cells are exact fractions [num, den].                           *)
(***************************************************************************)
EXTENDS Integers, Sequences, FiniteSets

----------------------------------------------------------------------------
(* Bounds of the model *)

MaxRows == 4
MaxCols == 2
MaxImp == 1
SplitRows == 5
CleanRows == 2
CleanCols == 2
ReduceRows == 2
ReduceCols == 2

(* Program constants *)

Scale == 10
ThresholdNum == 1
ThresholdDen == 100
n_neighbors == 5
TestNum == 3
TestDen == 10
NaN == -1

----------------------------------------------------------------------------
(* Arithmetic helpers *)

RECURSIVE SumOver(_, _)
SumOver(S, f) ==
    IF S = {} THEN 0
    ELSE LET x == CHOOSE e \in S : TRUE
         IN f[x] + SumOver(S \ {x}, f)

Min(a, b) == IF a <= b THEN a ELSE b

Frac(a, b) == [num |-> a, den |-> b]

FracEq(p, q) == p.num * q.den = q.num * p.den

(* rows of a matrix (a sequence of rows, each a sequence of cells) *)
Rows(M) == 1 .. Len(M)
Cols(M) == IF Len(M) = 0 THEN {} ELSE 1 .. Len(M[1])

(* the sub-sequence of s at the positions in keep, in order *)
Take(s, keep) ==
    LET F[i \in 0 .. Len(s)] ==
            IF i = 0 THEN << >>
            ELSE IF i \in keep THEN Append(F[i - 1], s[i]) ELSE F[i - 1]
    IN F[Len(s)]

(* the matrix restricted to the columns in keep; rows and their order stay *)
TakeCols(M, keep) == [i \in Rows(M) |-> Take(M[i], keep)]

Classes(y) == {y[i] : i \in DOMAIN y}

ClassCount(y, c) == Cardinality({i \in DOMAIN y : y[i] = c})

----------------------------------------------------------------------------
(* The spreadsheets the notebooks read *)

UserIds == {1, 2}
TouchTypes == {1, 2}
Pegi == {3, 7}
(* ESRB letters by code point: "E" = 69, "T" = 84 *)
Esrb == {69, 84}

Primary(book) == IF book = "03" THEN UserIds ELSE Pegi
Secondary(book) == IF book = "03" THEN TouchTypes ELSE Esrb

LabelKinds == {"one", "single", "alt", "half"}

(* a label column of n rows over the classes a and b *)
LabelColumn(kind, n, a, b) ==
    [i \in 1 .. n |->
        CASE kind = "one" -> a
          [] kind = "single" -> IF i = 1 THEN b ELSE a
          [] kind = "alt" -> IF i % 2 = 1 THEN a ELSE b
          [] OTHER -> IF 2 * i <= n THEN a ELSE b]

ColumnKinds(book) ==
    IF book = "03" THEN {"const", "ripple", "step"}
    ELSE {"step", "holed", "empty"}

(* one cell of a feature column, in units of 1/Scale *)
Cell(kind, i) ==
    CASE kind = "const" -> 5
      [] kind = "ripple" -> i % 2
      [] kind = "step" -> 3 * (i % 2)
      [] kind = "holed" -> IF i = 1 THEN NaN ELSE 3 * (i % 2)
      [] OTHER -> NaN

Sheet(n, kinds) == [i \in 1 .. n |-> [j \in 1 .. Len(kinds) |-> Cell(kinds[j], i)]]

LabelLow(S) == CHOOSE a \in S : \A b \in S : a <= b
LabelHigh(S) == CHOOSE a \in S : \A b \in S : a >= b

ColumnChoices(book) ==
    UNION {[1 .. m -> ColumnKinds(book)] : m \in 1 .. MaxCols}

----------------------------------------------------------------------------
VARIABLES
    nb,             \* which notebook runs
    pc,             \* <<statement about to run, target>>, or done / failed
    error,          \* the exception that ended the run and the statement that raised it
    ns,             \* the names bound in the kernel's namespace
    X,              \* feature matrix
    y1,             \* primary target: user_id (03), PEGI (04)
    y2,             \* secondary target: touch_type (03), ESRB (04)
    X_imputed,      \* 04: KNN-imputed matrix
    X_filtered,     \* 03: variance-filtered matrix
    selector,       \* the ensemble handed to SelectFromModel, with its fit() arguments
    X_selected,     \* the reduced matrix
    y_esrb_encoded, \* 04: ESRB after LabelEncoder
    split,          \* per target: X_train, X_test, y_train, y_test
    clf,            \* per target: the classifier, with its fit() arguments
    y_pred,         \* per target: predictions on the test partition
    acc,            \* per target: accuracy
    final_score     \* composite score

vars == <<nb, pc, error, ns, X, y1, y2, X_imputed, X_filtered, selector,
          X_selected, y_esrb_encoded, split, clf, y_pred, acc, final_score>>

Targets == 1 .. 2

NoSelector == [n_fits |-> 0, fit_X |-> << >>, fit_y |-> << >>,
               feature_importances |-> << >>]
NoSplit == [X_train |-> << >>, X_test |-> << >>, y_train |-> << >>, y_test |-> << >>]
NoClf == [n_fits |-> 0, fit_X |-> << >>, fit_y |-> << >>, classes |-> {},
          predict_X |-> << >>]
NoFrac == Frac(0, 0)

NoError == [type |-> "none", at |-> <<"none", 0>>]

UnsetReducer ==
    /\ X_filtered = << >>
    /\ selector = NoSelector /\ X_selected = << >>

UnsetEvaluator ==
    /\ error = NoError
    /\ split = [t \in Targets |-> NoSplit]
    /\ clf = [t \in Targets |-> NoClf]
    /\ y_pred = [t \in Targets |-> << >>]
    /\ acc = [t \in Targets |-> NoFrac]
    /\ final_score = NoFrac

UnsetTrainer == y_esrb_encoded = << >> /\ UnsetEvaluator

Unset == X_imputed = << >> /\ UnsetReducer /\ UnsetTrainer

Init ==
    /\ nb \in {"03", "04"}
    /\ pc = <<"load", 0>>
    /\ ns = {}
    /\ X = << >> /\ y1 = << >> /\ y2 = << >>
    /\ Unset

(* the statement after op for target t, in cell order *)
After(book, op, t) ==
    CASE op = "load" -> IF book = "03" THEN <<"variance", 0>> ELSE <<"impute", 0>>
      [] op = "variance" -> <<"selfit", 0>>
      [] op = "impute" -> <<"selfit", 0>>
      [] op = "selfit" -> <<"select", 0>>
      [] op = "select" -> IF book = "03" THEN <<"split", 1>> ELSE <<"encode", 0>>
      [] op = "encode" -> <<"split", 1>>
      [] op = "split" ->
            IF book = "03" THEN <<"fit", t>>
            ELSE IF t = 1 THEN <<"split", 2>> ELSE <<"fit", 1>>
      [] op = "fit" -> <<"predict", t>>
      [] op = "predict" -> <<"accuracy", t>>
      [] op = "accuracy" -> <<"return", t>>
      [] op = "return" ->
            IF t = 2 THEN <<"score", 0>>
            ELSE IF book = "03" THEN <<"split", 2>> ELSE <<"fit", 2>>
      [] OTHER -> <<"done", 0>>

(* variant: the exception is swallowed and the next statement runs *)
FailContinue(name) ==
    /\ pc' = After(nb, pc[1], pc[2])
    /\ error' = [type |-> name, at |-> pc]

(* an uncaught exception ends the run: no later statement executes *)
Fail(name) ==
    /\ pc' = <<"failed", 0>>
    /\ error' = [type |-> name, at |-> pc]

Go(op, t) ==
    /\ pc' = After(nb, op, t)
    /\ error' = error

----------------------------------------------------------------------------
(* Loader: read_excel and the feature / target columns *)

Load ==
    /\ pc = <<"load", 0>>
    /\ \/ /\ Fail("KeyError")
          /\ UNCHANGED <<ns, X, y1, y2>>
       \/ \E n \in 1 .. MaxRows, kinds \in ColumnChoices(nb),
             k1 \in LabelKinds, k2 \in LabelKinds :
            /\ X' = Sheet(n, kinds)
            /\ y1' = LabelColumn(k1, n, LabelLow(Primary(nb)), LabelHigh(Primary(nb)))
            /\ y2' = LabelColumn(k2, n, LabelLow(Secondary(nb)), LabelHigh(Secondary(nb)))
            /\ ns' = ns \cup {"X", "y1", "y2"}
            /\ Go("load", 0)
    /\ UNCHANGED <<nb, X_imputed, X_filtered, selector, X_selected,
                   y_esrb_encoded, split, clf, y_pred, acc, final_score>>

----------------------------------------------------------------------------
(* Cleaner (04): KNNImputer(n_neighbors=5).fit_transform(X) *)

Present(M, i, j) == M[i][j] # NaN

(* rows that can donate a value for column j *)
Donors(M, j) == {d \in Rows(M) : Present(M, d, j)}

(* columns observed in both rows *)
Shared(M, r, d) == {c \in Cols(M) : Present(M, r, c) /\ Present(M, d, c)}

SqDiff(M, r, d) ==
    SumOver(Shared(M, r, d),
            [c \in Cols(M) |-> (M[r][c] - M[d][c]) * (M[r][c] - M[d][c])])

(* nan_euclidean distance is undefined when the rows share no column *)
DistNan(M, r, d) == Shared(M, r, d) = {}

(* donor a is strictly nearer to r than donor b; an undefined distance is last. *)
(* dist^2 = (columns / shared columns) * squared difference                     *)
Nearer(M, r, a, b) ==
    /\ ~DistNan(M, r, a)
    /\ \/ DistNan(M, r, b)
       \/ SqDiff(M, r, a) * Cardinality(Shared(M, r, b))
            < SqDiff(M, r, b) * Cardinality(Shared(M, r, a))

(* the possible sets of nearest donors: ties are broken arbitrarily *)
NeighbourSets(M, r, j) ==
    LET D == Donors(M, j)
        k == Min(n_neighbors, Cardinality(D))
    IN {S \in SUBSET D :
            /\ Cardinality(S) = k
            /\ \A a \in S, b \in D \ S : ~Nearer(M, r, b, a)}

ColumnOf(M, j) == [i \in Rows(M) |-> M[i][j]]

MeanOf(M, j, S) == Frac(SumOver(S, ColumnOf(M, j)), Cardinality(S))

(* the values KNNImputer may write into the missing cell (r, j) *)
ImputedValues(M, r, j) ==
    IF \A d \in Donors(M, j) : DistNan(M, r, d)
    THEN {MeanOf(M, j, Donors(M, j))}
    ELSE {MeanOf(M, j, {d \in S : ~DistNan(M, r, d)}) : S \in NeighbourSets(M, r, j)}

MissingCells(M) == {c \in Rows(M) \X Cols(M) : ~Present(M, c[1], c[2])}

(* columns with no observed value are dropped by the imputer *)
EmptyCols(M) == {j \in Cols(M) : Donors(M, j) = {}}

(* variant: a column with a missing cell is overwritten whole by its mean *)
KNNImputeSmear(M) ==
    {[i \in Rows(M) |-> [j \in Cols(M) |->
        IF Donors(M, j) = Rows(M) THEN Frac(M[i][j], 1)
        ELSE MeanOf(M, j, Donors(M, j))]]}

(* every matrix fit_transform can return for M (no column of M is empty) *)
KNNImpute(M) ==
    LET cand == UNION {ImputedValues(M, c[1], c[2]) : c \in MissingCells(M)}
        fills == {f \in [MissingCells(M) -> cand] :
                    \A c \in MissingCells(M) : f[c] \in ImputedValues(M, c[1], c[2])}
    IN {[i \in Rows(M) |-> [j \in Cols(M) |->
            IF Present(M, i, j) THEN Frac(M[i][j], 1) ELSE f[<<i, j>>]]] : f \in fills}

Impute ==
    /\ pc = <<"impute", 0>>
    /\ \/ /\ EmptyCols(X) # {}
          /\ Fail("ValueError")
          /\ UNCHANGED <<ns, X_imputed>>
       \/ /\ EmptyCols(X) = {}
          /\ X_imputed' \in KNNImpute(X)
          /\ ns' = ns \cup {"X_imputed"}
          /\ Go("impute", 0)
    /\ UNCHANGED <<nb, X, y1, y2, X_filtered, selector, X_selected,
                   y_esrb_encoded, split, clf, y_pred, acc, final_score>>

----------------------------------------------------------------------------
(* Reducer, first stage (03): VarianceThreshold(threshold=0.01) *)

(* n^2 times the population variance of column j, in cell units squared *)
VarTimesN2(M, j) ==
    LET n == Len(M)
        s == SumOver(Rows(M), ColumnOf(M, j))
        q == SumOver(Rows(M), [i \in Rows(M) |-> M[i][j] * M[i][j]])
    IN n * q - s * s

(* variant: a threshold relative to the matrix, the mean variance of its columns *)
AboveAverage(M, j) ==
    VarTimesN2(M, j) * Cardinality(Cols(M))
        > SumOver(Cols(M), [c \in Cols(M) |-> VarTimesN2(M, c)])

(* variance > threshold, the cells being in units of 1/Scale *)
AboveThreshold(M, j) ==
    VarTimesN2(M, j) * ThresholdDen > ThresholdNum * Len(M) * Len(M) * Scale * Scale

VarianceSupport(M) == {j \in Cols(M) : AboveThreshold(M, j)}

VarianceTransform(M) == TakeCols(M, VarianceSupport(M))

VarianceFilter ==
    /\ pc = <<"variance", 0>>
    /\ \/ /\ VarianceSupport(X) = {}
          /\ Fail("ValueError")
          /\ UNCHANGED <<ns, X_filtered>>
       \/ /\ VarianceSupport(X) # {}
          /\ X_filtered' = VarianceTransform(X)
          /\ ns' = ns \cup {"X_filtered"}
          /\ Go("variance", 0)
    /\ UNCHANGED <<nb, X, y1, y2, X_imputed, selector, X_selected,
                   y_esrb_encoded, split, clf, y_pred, acc, final_score>>

----------------------------------------------------------------------------
(* Reducer, second stage: an ensemble fitted on the primary target, then   *)
(* SelectFromModel(threshold="median", prefit=True).transform              *)

(* the matrix entering the importance filter *)
ReducerInput == IF nb = "03" THEN X_filtered ELSE X_imputed

(* 03 fits a RandomForestClassifier, 04 a GradientBoostingClassifier, which *)
(* refuses a target with fewer than two classes                             *)
SelectorFitFails(book, y) == book = "04" /\ Cardinality(Classes(y)) < 2

(* variant: the selector fitted on the secondary target *)
SelectorLabelsSecondary == y2

(* the label vector handed to the selector's fit() *)
SelectorLabels == y1

SelectorFit ==
    /\ pc = <<"selfit", 0>>
    /\ \/ /\ SelectorFitFails(nb, SelectorLabels)
          /\ Fail("ValueError")
          /\ UNCHANGED <<ns, selector>>
       \/ /\ ~SelectorFitFails(nb, SelectorLabels)
          /\ \E imp \in [Cols(ReducerInput) -> 0 .. MaxImp] :
                selector' = [n_fits |-> selector.n_fits + 1,
                             fit_X |-> ReducerInput,
                             fit_y |-> SelectorLabels,
                             feature_importances |-> imp]
          /\ ns' = ns \cup {"selector"}
          /\ Go("selfit", 0)
    /\ UNCHANGED <<nb, X, y1, y2, X_imputed, X_filtered, X_selected,
                   y_esrb_encoded, split, clf, y_pred, acc, final_score>>

(* the k-th smallest of the values of imp *)
KthSmallest(imp, k) ==
    CHOOSE v \in {imp[j] : j \in DOMAIN imp} :
        /\ Cardinality({j \in DOMAIN imp : imp[j] < v}) < k
        /\ Cardinality({j \in DOMAIN imp : imp[j] <= v}) >= k

(* twice numpy's median: the middle value, or the mean of the two middle ones *)
TwiceMedian(imp) ==
    LET m == Cardinality(DOMAIN imp)
    IN IF m % 2 = 1 THEN 2 * KthSmallest(imp, (m + 1) \div 2)
       ELSE KthSmallest(imp, m \div 2) + KthSmallest(imp, m \div 2 + 1)

(* variant: only the features strictly above the threshold *)
SelectSupportStrict(imp) == {j \in DOMAIN imp : 2 * imp[j] > TwiceMedian(imp)}

(* features whose importance is not below the threshold *)
SelectSupport(imp) == {j \in DOMAIN imp : 2 * imp[j] >= TwiceMedian(imp)}

SelectTransform ==
    /\ pc = <<"select", 0>>
    /\ X_selected' = TakeCols(ReducerInput, SelectSupport(selector.feature_importances))
    /\ ns' = ns \cup {"X_selected"}
    /\ Go("select", 0)
    /\ UNCHANGED <<nb, X, y1, y2, X_imputed, X_filtered, selector,
                   y_esrb_encoded, split, clf, y_pred, acc, final_score>>

----------------------------------------------------------------------------
(* 04: LabelEncoder().fit_transform(y_esrb): each label becomes its rank   *)
(* among the sorted distinct labels                                        *)

LabelEncode(y) ==
    [i \in DOMAIN y |-> Cardinality({c \in Classes(y) : c < y[i]})]

Encode ==
    /\ pc = <<"encode", 0>>
    /\ y_esrb_encoded' = LabelEncode(y2)
    /\ ns' = ns \cup {"y_esrb_encoded"}
    /\ Go("encode", 0)
    /\ UNCHANGED <<nb, X, y1, y2, X_imputed, X_filtered, selector, X_selected,
                   split, clf, y_pred, acc, final_score>>

----------------------------------------------------------------------------
(* Trainer/Evaluator: train_test_split(X, y, test_size=0.3, stratify=y)    *)

(* the label vector target t is split and trained on *)
TargetLabels(t) ==
    IF t = 1 THEN y1
    ELSE IF nb = "03" THEN y2 ELSE y_esrb_encoded

(* the matrix handed to the split of target t *)
TargetMatrix(t) == X_selected

(* n_test = ceil(test_size * n), n_train = n - n_test *)
NTest(n) == (TestNum * n + TestDen - 1) \div TestDen
NTrain(n) == n - NTest(n)

CountsOf(y) == [c \in Classes(y) |-> ClassCount(y, c)]

(* _approximate_mode: draws spread over the classes in proportion to    *)
(* counts, rounded down, the rest going to the largest remainders, ties *)
(* broken at random                                                     *)
ApproximateMode(counts, draws) ==
    LET cls == DOMAIN counts
        total == SumOver(cls, counts)
        floored == [c \in cls |-> (counts[c] * draws) \div total]
        rem == [c \in cls |-> (counts[c] * draws) % total]
        need == draws - SumOver(cls, floored)
    IN {[c \in cls |-> floored[c] + (IF c \in S THEN 1 ELSE 0)] :
            S \in {T \in SUBSET cls :
                    /\ Cardinality(T) = need
                    /\ \A c \in T, d \in cls \ T : rem[c] >= rem[d]}}

(* variant: no minimum on the members of a class *)
SplitRefusalNoMinimum(y) ==
    LET n == Len(y)
    IN IF NTrain(n) = 0 THEN "empty train set"
       ELSE IF NTrain(n) < Cardinality(Classes(y)) THEN "train smaller than classes"
       ELSE IF NTest(n) < Cardinality(Classes(y)) THEN "test smaller than classes"
       ELSE "none"

(* why StratifiedShuffleSplit refuses y, or "none" *)
SplitRefusal(y) ==
    LET n == Len(y)
    IN IF NTrain(n) = 0 THEN "empty train set"
       ELSE IF \E c \in Classes(y) : ClassCount(y, c) < 2 THEN "class with one member"
       ELSE IF NTrain(n) < Cardinality(Classes(y)) THEN "train smaller than classes"
       ELSE IF NTest(n) < Cardinality(Classes(y)) THEN "test smaller than classes"
       ELSE "none"

(* the row sets taking alloc[c] rows of every class c out of pool *)
Draws(y, pool, alloc) ==
    {S \in SUBSET pool :
        \A c \in Classes(y) : Cardinality({i \in S : y[i] = c}) = alloc[c]}

(* variant: the test rows drawn from all rows *)
TestPoolAll(y, tr) == DOMAIN y

(* the rows left for the test partition once tr went to train *)
TestPool(y, tr) == DOMAIN y \ tr

(* every <<train, test>> pair of row-index sets the split can return *)
Partitions(y) ==
    LET n == Len(y)
    IN UNION {UNION {
            LET left == [c \in Classes(y) |-> ClassCount(y, c) - n_i[c]]
            IN {<<tr, te>> : te \in UNION {Draws(y, TestPool(y, tr), t_i) :
                                            t_i \in ApproximateMode(left, NTest(n))}}
            : tr \in Draws(y, DOMAIN y, n_i)}
        : n_i \in ApproximateMode(CountsOf(y), NTrain(n))}

Restrict(f, S) == [i \in S |-> f[i]]

(* 04 keeps the partitions in the kernel's namespace; in 03 they are locals *)
SplitName(t) == IF t = 1 THEN "split1" ELSE "split2"

Split(t) ==
    /\ pc = <<"split", t>>
    /\ LET y == TargetLabels(t)
           M == TargetMatrix(t)
       IN \/ /\ SplitRefusal(y) # "none"
             /\ Fail("ValueError")
             /\ UNCHANGED <<ns, split>>
          \/ /\ SplitRefusal(y) = "none"
             /\ \E p \in Partitions(y) :
                    split' = [split EXCEPT ![t] =
                                [X_train |-> Restrict(M, p[1]),
                                 X_test |-> Restrict(M, p[2]),
                                 y_train |-> Restrict(y, p[1]),
                                 y_test |-> Restrict(y, p[2])]]
             /\ ns' = IF nb = "04" THEN ns \cup {SplitName(t)} ELSE ns
             /\ Go("split", t)
    /\ UNCHANGED <<nb, X, y1, y2, X_imputed, X_filtered, selector, X_selected,
                   y_esrb_encoded, clf, y_pred, acc, final_score>>

(* GradientBoostingClassifier.fit needs a feature and two classes *)
ClfFitFails(Xtr, ytr) ==
    \/ Cardinality(Classes(ytr)) < 2
    \/ \E i \in DOMAIN Xtr : Len(Xtr[i]) = 0

(* variant: the classifier fitted on every row *)
FitMatrixAll(t) == TargetMatrix(t)

(* the rows and labels handed to the classifier's fit() *)
FitMatrix(t) == split[t].X_train
FitLabels(t) == split[t].y_train

Fit(t) ==
    /\ pc = <<"fit", t>>
    /\ \/ /\ ClfFitFails(FitMatrix(t), FitLabels(t))
          /\ Fail("ValueError")
          /\ UNCHANGED clf
       \/ /\ ~ClfFitFails(FitMatrix(t), FitLabels(t))
          /\ clf' = [clf EXCEPT ![t] =
                        [n_fits |-> clf[t].n_fits + 1,
                         fit_X |-> FitMatrix(t),
                         fit_y |-> FitLabels(t),
                         classes |-> Classes(FitLabels(t)),
                         predict_X |-> << >>]]
          /\ Go("fit", t)
    /\ UNCHANGED <<nb, ns, X, y1, y2, X_imputed, X_filtered, selector, X_selected,
                   y_esrb_encoded, split, y_pred, acc, final_score>>

(* the rows handed to predict() *)
PredictMatrix(t) == split[t].X_test

(* one prediction per row, each a class the classifier was fitted on *)
Predict(t) ==
    /\ pc = <<"predict", t>>
    /\ \E p \in [DOMAIN PredictMatrix(t) -> clf[t].classes] :
            y_pred' = [y_pred EXCEPT ![t] = p]
    /\ clf' = [clf EXCEPT ![t].predict_X = PredictMatrix(t)]
    /\ Go("predict", t)
    /\ UNCHANGED <<nb, ns, X, y1, y2, X_imputed, X_filtered, selector, X_selected,
                   y_esrb_encoded, split, acc, final_score>>

(* variant: normalize=False, the count of rows predicted right *)
AccuracyCount(y_true, y_hat) ==
    Frac(Cardinality({i \in DOMAIN y_true : y_true[i] = y_hat[i]}), 1)

(* accuracy_score: the fraction of rows predicted right *)
AccuracyScore(y_true, y_hat) ==
    Frac(Cardinality({i \in DOMAIN y_true : y_true[i] = y_hat[i]}),
         Cardinality(DOMAIN y_true))

Accuracy(t) ==
    /\ pc = <<"accuracy", t>>
    /\ acc' = [acc EXCEPT ![t] = AccuracyScore(split[t].y_test, y_pred[t])]
    /\ Go("accuracy", t)
    /\ UNCHANGED <<nb, ns, X, y1, y2, X_imputed, X_filtered, selector, X_selected,
                   y_esrb_encoded, split, clf, y_pred, final_score>>

AccName(t) == IF t = 1 THEN "acc1" ELSE "acc2"

(* return acc: the call's locals go, the accuracy is bound in the namespace *)
Return(t) ==
    /\ pc = <<"return", t>>
    /\ ns' = ns \cup {AccName(t)}
    /\ clf' = [clf EXCEPT ![t] = NoClf]
    /\ y_pred' = [y_pred EXCEPT ![t] = << >>]
    /\ split' = IF nb = "03" THEN [split EXCEPT ![t] = NoSplit] ELSE split
    /\ Go("return", t)
    /\ UNCHANGED <<nb, X, y1, y2, X_imputed, X_filtered, selector, X_selected,
                   y_esrb_encoded, acc, final_score>>

----------------------------------------------------------------------------
(* Scorer: final_score = acc_a * acc_b *)

(* variant: the mean of the two accuracies *)
CompositeAverage(a, b) == Frac(a.num * b.den + b.num * a.den, 2 * a.den * b.den)

Composite(a, b) == Frac(a.num * b.num, a.den * b.den)

FinalScore ==
    /\ pc = <<"score", 0>>
    /\ {"acc1", "acc2"} \subseteq ns
    /\ final_score' = Composite(acc[1], acc[2])
    /\ ns' = ns \cup {"final_score"}
    /\ Go("score", 0)
    /\ UNCHANGED <<nb, X, y1, y2, X_imputed, X_filtered, selector, X_selected,
                   y_esrb_encoded, split, clf, y_pred, acc>>

----------------------------------------------------------------------------
Next ==
    \/ Load
    \/ Impute
    \/ VarianceFilter
    \/ SelectorFit
    \/ SelectTransform
    \/ Encode
    \/ \E t \in Targets : Split(t)
    \/ \E t \in Targets : Fit(t)
    \/ \E t \in Targets : Predict(t)
    \/ \E t \in Targets : Accuracy(t)
    \/ \E t \in Targets : Return(t)
    \/ FinalScore

Spec == Init /\ [][Next]_vars

----------------------------------------------------------------------------
(* The Cleaner alone: every small sheet, and tall sheets with more donors *)
(* than n_neighbors                                                       *)

CleanCells == {NaN, 0, 3}

SmallSheets ==
    UNION {[1 .. n -> [1 .. m -> CleanCells]] :
            n \in 1 .. CleanRows, m \in 1 .. CleanCols}

TallKinds == {"step", "holed", "ramp", "gap"}

TallCell(kind, i) ==
    CASE kind = "ramp" -> i
      [] kind = "gap" -> IF i <= 2 THEN NaN ELSE i * i
      [] OTHER -> Cell(kind, i)

TallSheets ==
    {[i \in 1 .. n_neighbors + 2 |-> [j \in 1 .. 2 |-> TallCell(kinds[j], i)]] :
        kinds \in [1 .. 2 -> TallKinds]}

InitClean ==
    /\ nb = "04"
    /\ pc = <<"impute", 0>>
    /\ X \in SmallSheets \cup TallSheets
    /\ y1 = LabelColumn("alt", Len(X), LabelLow(Pegi), LabelHigh(Pegi))
    /\ y2 = LabelColumn("half", Len(X), LabelLow(Esrb), LabelHigh(Esrb))
    /\ ns = {"X", "y1", "y2"}
    /\ Unset

NextClean == Impute

SpecClean == InitClean /\ [][NextClean]_vars

----------------------------------------------------------------------------
(* The Reducer alone: every small matrix through the variance filter (03) *)
(* and the importance filter (03 and 04)                                  *)

ReduceCells == {0, 1, 3}

ReduceSheets ==
    UNION {[1 .. n -> [1 .. m -> ReduceCells]] :
            n \in 1 .. ReduceRows, m \in 1 .. ReduceCols}

AsFractions(M) == [i \in Rows(M) |-> [j \in Cols(M) |-> Frac(M[i][j], 1)]]

InitReduce ==
    /\ nb \in {"03", "04"}
    /\ X \in ReduceSheets
    /\ y1 = LabelColumn("alt", Len(X), LabelLow(Primary(nb)), LabelHigh(Primary(nb)))
    /\ y2 = LabelColumn("half", Len(X), LabelLow(Secondary(nb)), LabelHigh(Secondary(nb)))
    /\ UnsetReducer /\ UnsetTrainer
    /\ IF nb = "03"
       THEN /\ pc = <<"variance", 0>>
            /\ X_imputed = << >>
            /\ ns = {"X", "y1", "y2"}
       ELSE /\ pc = <<"selfit", 0>>
            /\ X_imputed = AsFractions(X)
            /\ ns = {"X", "y1", "y2", "X_imputed"}

NextReduce ==
    \/ VarianceFilter
    \/ SelectorFit
    \/ SelectTransform

SpecReduce == InitReduce /\ [][NextReduce]_vars

----------------------------------------------------------------------------
(* The two splits of 04 alone, over every pair of label vectors *)

PegiWide == {3, 7, 12}

InitSplit ==
    /\ nb = "04"
    /\ pc = <<"split", 1>>
    /\ \E n \in 1 .. SplitRows :
        /\ X = [i \in 1 .. n |-> <<3 * (i % 2)>>]
        /\ y1 \in {y \in [1 .. n -> PegiWide] : ~SelectorFitFails("04", y)}
        /\ y2 \in [1 .. n -> Esrb]
    /\ X_imputed = AsFractions(X)
    /\ X_filtered = << >>
    /\ selector = [n_fits |-> 1, fit_X |-> X_imputed, fit_y |-> y1,
                   feature_importances |-> <<1>>]
    /\ X_selected = X_imputed
    /\ y_esrb_encoded = LabelEncode(y2)
    /\ ns = {"X", "y1", "y2", "X_imputed", "selector", "X_selected", "y_esrb_encoded"}
    /\ UnsetEvaluator

NextSplit == \E t \in Targets : Split(t)

SpecSplit == InitSplit /\ [][NextSplit]_vars

----------------------------------------------------------------------------
(* Properties *)

Bound(name) == name \in ns

(* the labels of target t as loaded *)
RawLabels(t) == IF t = 1 THEN y1 ELSE y2

HasSingleton(y) == \E c \in Classes(y) : ClassCount(y, c) = 1

(* C1: in both notebooks the composite score is the product of the two    *)
(* accuracies, and is neither their sum nor their average whenever those  *)
(* differ from the product; with equal accuracies a it is a * a.          *)
C1_ScoreIsProduct ==
    Bound("final_score") =>
        LET a == acc[1]
            b == acc[2]
            f == final_score
            den == a.den * b.den
            prod == a.num * b.num
            sum == a.num * b.den + b.num * a.den
        IN /\ f.den # 0
           /\ f.num * den = prod * f.den
           /\ (prod # sum) => f.num * den # sum * f.den
           /\ (2 * prod # sum) => 2 * f.num * den # sum * f.den
           /\ FracEq(a, b) => f.num * (a.den * a.den) = (a.num * a.num) * f.den

C1_Witness ==
    /\ pc = <<"done", 0>>
    /\ FracEq(acc[1], Frac(1, 2)) /\ FracEq(acc[2], Frac(1, 2))
    /\ FracEq(final_score, Frac(1, 4))

InUnit(f) == f.den > 0 /\ 0 <= f.num /\ f.num <= f.den

(* C2: every accuracy a per-target evaluation returns lies in [0, 1], and *)
(* so does the composite score of every run that reaches the Scorer.      *)
C2_ScoresInUnitInterval ==
    /\ \A t \in Targets : (acc[t] # NoFrac \/ Bound(AccName(t))) => InUnit(acc[t])
    /\ Bound("final_score") => InUnit(final_score)

C2_Witness ==
    /\ pc = <<"done", 0>>
    /\ acc[1].num = acc[1].den
    /\ acc[2].num = 0
    /\ final_score.num = 0 /\ final_score.den > 0

(* the two label vectors group the rows differently *)
DifferentGrouping(u, v) ==
    \E i \in DOMAIN u, j \in DOMAIN u : (u[i] = u[j]) # (v[i] = v[j])

RowsOf(P, M) == \A i \in DOMAIN P : i \in DOMAIN M /\ P[i] = M[i]

(* C3: the importance filter is fitted once, on the primary target's      *)
(* labels, and the one reduced matrix it yields is what both targets are  *)
(* split, trained and evaluated on.                                       *)
C3_OneFilterForBothTargets ==
    /\ selector.n_fits <= 1
    /\ Bound("selector") =>
        /\ selector.n_fits = 1
        /\ selector.fit_y = y1
        /\ selector.fit_X = ReducerInput
    /\ Bound("X_selected") =>
        /\ Len(X_selected) = Len(ReducerInput)
        /\ \A t \in Targets :
            /\ RowsOf(split[t].X_train, X_selected)
            /\ RowsOf(split[t].X_test, X_selected)
            /\ RowsOf(clf[t].fit_X, X_selected)
            /\ RowsOf(clf[t].predict_X, X_selected)
    /\ \A t \in Targets : split[t] # NoSplit => Bound("X_selected")

C3_Witness ==
    /\ pc = <<"accuracy", 2>>
    /\ DifferentGrouping(y1, y2)
    /\ Len(X_selected[1]) < Len(ReducerInput[1])
    /\ clf[2].n_fits = 1

(* C4: each split yields two disjoint sets of row indices whose union is  *)
(* all n rows, and each target's split carries that target's own labels.  *)
C4_SplitIsPartition ==
    \A t \in Targets :
        split[t] # NoSplit =>
            LET tr == DOMAIN split[t].X_train
                te == DOMAIN split[t].X_test
            IN /\ tr \cap te = {}
               /\ tr \cup te = 1 .. Len(X_selected)
               /\ DOMAIN split[t].y_train = tr
               /\ DOMAIN split[t].y_test = te
               /\ \A i \in tr : split[t].y_train[i] = TargetLabels(t)[i]
               /\ \A i \in te : split[t].y_test[i] = TargetLabels(t)[i]

C4_Witness ==
    /\ split[1] # NoSplit /\ split[2] # NoSplit
    /\ DOMAIN split[1].X_train # DOMAIN split[2].X_train
    /\ Len(X_selected) = SplitRows

(* a target with a one-member class never has a partition or an accuracy *)
C5_SingletonState ==
    \A t \in Targets :
        (Bound("y1") /\ HasSingleton(RawLabels(t))) =>
            /\ split[t] = NoSplit
            /\ acc[t] = NoFrac
            /\ ~Bound(AccName(t))
            /\ ~Bound("final_score")

(* the split of such a target raises *)
C5_SingletonStep ==
    \A t \in Targets :
        (pc = <<"split", t>> /\ HasSingleton(RawLabels(t))) =>
            /\ pc' = <<"failed", 0>>
            /\ error' = [type |-> "ValueError", at |-> <<"split", t>>]

(* C5: a target whose labels hold a class with exactly one member makes   *)
(* the split raise: that target gets no partition and no accuracy.        *)
C5_SingletonClassFailsSplit == [](C5_SingletonState) /\ [][C5_SingletonStep]_vars

C5_Witness ==
    /\ pc = <<"failed", 0>>
    /\ error.at = <<"split", 2>>
    /\ HasSingleton(y2)
    /\ Len(y2) >= 3
    /\ ~HasSingleton(y1)

StageOrder03 ==
    << <<"load", 0>>, <<"variance", 0>>, <<"selfit", 0>>, <<"select", 0>>,
       <<"split", 1>>, <<"fit", 1>>, <<"predict", 1>>, <<"accuracy", 1>>,
       <<"return", 1>>,
       <<"split", 2>>, <<"fit", 2>>, <<"predict", 2>>, <<"accuracy", 2>>,
       <<"return", 2>>, <<"score", 0>>, <<"done", 0>> >>

StageOrder04 ==
    << <<"load", 0>>, <<"impute", 0>>, <<"selfit", 0>>, <<"select", 0>>,
       <<"encode", 0>>, <<"split", 1>>, <<"split", 2>>,
       <<"fit", 1>>, <<"predict", 1>>, <<"accuracy", 1>>, <<"return", 1>>,
       <<"fit", 2>>, <<"predict", 2>>, <<"accuracy", 2>>, <<"return", 2>>,
       <<"score", 0>>, <<"done", 0>> >>

(* q is the statement right after p in the cell order of the notebook *)
Follows(book, p, q) ==
    LET order == IF book = "03" THEN StageOrder03 ELSE StageOrder04
    IN \E k \in 1 .. Len(order) - 1 : order[k] = p /\ order[k + 1] = q

(* an error and the failed state go together; a score only in a finished run *)
C6_TerminalState ==
    /\ (error.type # "none") <=> (pc = <<"failed", 0>>)
    /\ pc = <<"failed", 0>> => (~Bound("final_score") /\ final_score = NoFrac)
    /\ pc = <<"done", 0>> => (Bound("final_score") /\ error = NoError)
    /\ Bound("final_score") => pc = <<"done", 0>>

(* every step starts without an error and moves one statement on, or fails *)
C6_TerminalStep ==
    /\ error.type = "none"
    /\ pc # <<"done", 0>>
    /\ \/ /\ pc' = <<"failed", 0>>
          /\ error'.at = pc
       \/ Follows(nb, pc, pc')

(* C6: a run completes or fails outright: the first failing stage ends it, *)
(* nothing runs after it, no stage runs twice, and a run in which a stage  *)
(* failed produces no composite score.                                     *)
C6_FailureIsTerminal == [](C6_TerminalState) /\ [][C6_TerminalStep]_vars

C6_Witness ==
    /\ pc = <<"failed", 0>>
    /\ error.at = <<"fit", 2>>
    /\ Bound("acc1")
    /\ ~Bound("final_score")

(* shape, no missing cell, observed cells kept; failure only on an empty column *)
C7_ImputeState ==
    /\ Bound("X_imputed") =>
        /\ Len(X_imputed) = Len(X)
        /\ \A i \in Rows(X) :
            /\ Len(X_imputed[i]) = Len(X[i])
            /\ \A j \in Cols(X) :
                /\ X_imputed[i][j].den # 0
                /\ X[i][j] # NaN => X_imputed[i][j].num = X[i][j] * X_imputed[i][j].den
    /\ pc = <<"failed", 0>> => \E j \in Cols(X) : \A i \in Rows(X) : X[i][j] = NaN
    /\ pc # <<"impute", 0>> => (Bound("X_imputed") \/ pc = <<"failed", 0>>)

(* C7: on a matrix with missing cells and no column entirely missing, the *)
(* imputer returns a matrix of the same shape with no missing cell, every *)
(* cell present in the input keeps its value, and the input is untouched. *)
C7_ImputerFillsAndPreserves == [](C7_ImputeState) /\ [][X' = X]_vars

C7_Witness ==
    /\ Bound("X_imputed")
    /\ Len(X) > n_neighbors + 1
    /\ \E i \in Rows(X), j \in Cols(X) : X[i][j] = NaN
    /\ \E i \in Rows(X) : \A j \in Cols(X) : X[i][j] # NaN

(* C8: the variance filter is idempotent: filtering its own output again  *)
(* removes no column; the output has the input's rows, in order, each cut *)
(* to the same kept columns.                                              *)
C8_VarianceFilterIdempotent ==
    Bound("X_filtered") =>
        /\ VarianceSupport(X_filtered) = Cols(X_filtered)
        /\ VarianceTransform(X_filtered) = X_filtered
        /\ Len(X_filtered) = Len(X)
        /\ \E K \in SUBSET Cols(X) : \A i \in Rows(X) : X_filtered[i] = Take(X[i], K)

C8_Witness ==
    /\ Bound("X_filtered")
    /\ Len(X) >= 2
    /\ Len(X_filtered[1]) < Len(X[1])
    /\ \E j \in Cols(X) : X[1][j] # X[2][j] /\ ~AboveThreshold(X, j)

(* C9: the classifier of a target is fitted on that target's training     *)
(* rows only, predicts that target's test rows only, and the accuracy is  *)
(* the number of test rows predicted right over the number of test rows.  *)
C9_FitTrainPredictTest ==
    \A t \in Targets :
        /\ clf[t].n_fits <= 1
        /\ clf[t].n_fits = 1 =>
            /\ clf[t].fit_X = split[t].X_train
            /\ clf[t].fit_y = split[t].y_train
            /\ DOMAIN clf[t].fit_X \cap DOMAIN split[t].X_test = {}
        /\ y_pred[t] # << >> =>
            /\ clf[t].predict_X = split[t].X_test
            /\ DOMAIN y_pred[t] = DOMAIN split[t].X_test
        /\ pc = <<"return", t>> =>
            /\ acc[t].den = Cardinality(DOMAIN split[t].X_test)
            /\ acc[t].num = Cardinality({i \in DOMAIN split[t].X_test :
                                            y_pred[t][i] = TargetLabels(t)[i]})

C9_Witness ==
    /\ pc = <<"return", 2>>
    /\ acc[2] = Frac(1, 2)
    /\ clf[2].n_fits = 1

=============================================================================
